---- MODULE Spec2Model ----
(***************************************************************************)
(* Scene stack and ECS world of the LD46 prototype (src/src/main.rs).      *)
(*                                                                         *)
(* The engine drives GameState frame by frame: one State::update call      *)
(* followed by one State::draw call.  The scene stack is a Vec of boxed    *)
(* Scene trait objects; the world is a legion World whose entities are     *)
(* numbered in insertion order.  The Text fields of the two scenes do not  *)
(* influence any transition and are not part of the state.                 *)
(***************************************************************************)
EXTENDS Integers, Sequences, FiniteSets, TLC

VARIABLES scenes,    \* GameState.scenes: sequence of scene instances, top is last
          world,     \* GameState.world: sequence of entities, index = entity id
          systems,   \* the systems held by GameState.executor
          pc,        \* which callback the engine runs next: "update" or "draw"
          frame,     \* number of the frame being run
          nextId,    \* number given to the next scene instance constructed
          spaces,    \* number of update calls that saw Space pressed
          quit,      \* TRUE once window::quit has been called
          calls      \* the last two callbacks run, oldest first

vars == <<scenes, world, systems, pc, frame, nextId, spaces, quit, calls>>

\* ---- bounds ----
MaxFrames == 10      \* frames run under Spec
MaxScenes == 5       \* scene instances constructed under Spec
MaxFramesGen == 3    \* frames run under SpecGen
MaxScenesGen == 3    \* scene instances constructed under SpecGen

\* ---- program constants ----
BatchSize == 999     \* (0..999) in both world.insert calls of TestScene::new

\* ===== ECS =====
Position(px, py) == [x |-> px, y |-> py]
Health(h, l) == [hp |-> h, last_damaged_by |-> l]

\* An entity: its tag set and its components (a function from the names of
\* the components it has to their values).
Entity(tagset, components) == [tags |-> tagset, comps |-> components]
HasComponent(e, c) == c \in DOMAIN e.comps

\* world.insert(tags, batch): the batch's entities are appended to the world.
WorldInsert(w, tagset, batch) ==
    w \o [i \in 1..Len(batch) |-> Entity(tagset, batch[i])]

\* The "MoveSystem": every entity matching the query Write<Position> gets
\* x and y increased by 1.
simple_test_system(w) ==
    [i \in 1..Len(w) |->
        IF HasComponent(w[i], "Position")
        THEN [w[i] EXCEPT !.comps["Position"] =
                 Position(@.x + 1, @.y + 1)]
        ELSE w[i]]

create_systems == <<"MoveSystem">>

RunSystem(name, w) == IF name = "MoveSystem" THEN simple_test_system(w) ELSE w

\* Executor::execute: runs the executor's systems in order over the world.
RECURSIVE Execute(_, _)
Execute(w, sys) ==
    IF sys = <<>> THEN w ELSE Execute(RunSystem(Head(sys), w), Tail(sys))

\* ===== Scenes =====
None == [type |-> "None"]
Push(s) == [type |-> "Push", scene |-> s]
Pop == [type |-> "Pop"]

Scene(k, n) == [kind |-> k, id |-> n]
NoScene == [kind |-> "none", id |-> 0]

\* What a scene callback hands back: its Transition and the world as the
\* callback (and any constructor it ran) left it.
Result(tr, w) == [t |-> tr, world |-> w]

TestSceneNewAllStatic(w) ==
    LET w1 == WorldInsert(w, {"Static"},
                 [i \in 1..BatchSize |->
                     [Position |-> Position(0, 0), Health |-> Health(0, 0)]])
    IN  WorldInsert(w1, {"Static"},
                 [i \in 1..BatchSize |-> [Position |-> Position(0, 0)]])

\* TestScene::new: 999 untagged entities with Position and Health, then 999
\* entities tagged Static with Position only.
TestSceneNew(w) ==
    LET w1 == WorldInsert(w, {},
                 [i \in 1..BatchSize |->
                     [Position |-> Position(0, 0), Health |-> Health(0, 0)]])
    IN  WorldInsert(w1, {"Static"},
                 [i \in 1..BatchSize |-> [Position |-> Position(0, 0)]])

TestScene2NewSpawns(w) == TestSceneNew(w)

\* TestScene2::new: touches no entity.
TestScene2New(w) == w

TestSceneUpdate(space, w, n) ==
    IF space THEN Result(Push(Scene("TestScene2", n)), TestScene2New(w))
    ELSE Result(None, w)

TestSceneDrawPop(w) == Result(Pop, w)

TestSceneDraw(w) == Result(None, w)

TestScene2UpdateSame(space, w, n) ==
    IF space THEN Result(Push(Scene("TestScene2", n)), TestScene2New(w))
    ELSE Result(None, w)

TestScene2UpdatePop(space, w, n) ==
    IF space THEN Result(Pop, w) ELSE Result(None, w)

TestScene2Update(space, w, n) ==
    IF space THEN Result(Push(Scene("TestScene", n)), TestSceneNew(w))
    ELSE Result(None, w)

TestScene2Draw(w) == Result(None, w)

\* Dynamic dispatch of Scene::update / Scene::draw on the boxed scene.
SceneUpdate(s, space, w, n) ==
    CASE s.kind = "TestScene" -> TestSceneUpdate(space, w, n)
      [] s.kind = "TestScene2" -> TestScene2Update(space, w, n)
      [] OTHER -> Result(None, w)

SceneDraw(s, w) ==
    CASE s.kind = "TestScene" -> TestSceneDraw(w)
      [] s.kind = "TestScene2" -> TestScene2Draw(w)
      [] OTHER -> Result(None, w)

\* A Scene implementation in general may hand back any Transition; a pushed
\* scene is one of the two scene types, built by its constructor.
TransitionChoices == {"None", "PushTestScene", "PushTestScene2", "Pop"}

AnySceneResult(choice, w, n) ==
    CASE choice = "None" -> Result(None, w)
      [] choice = "PushTestScene" ->
             Result(Push(Scene("TestScene", n)), TestSceneNew(w))
      [] choice = "PushTestScene2" ->
             Result(Push(Scene("TestScene2", n)), TestScene2New(w))
      [] choice = "Pop" -> Result(Pop, w)

\* ===== GameState =====
Front(st) == SubSeq(st, 1, Len(st) - 1)

ActiveIndexFirst(st) == 1

\* self.scenes.last_mut(): the index of the active scene.
ActiveIndex(st) == Len(st)
\* The Option it yields: NoScene stands for None (empty stack).
ActiveScene(st) == IF st = <<>> THEN NoScene ELSE st[ActiveIndex(st)]

UpdateTransitionSwap(st, tr) ==
    CASE tr.type = "None" -> st
      [] tr.type = "Push" -> Append(Front(st), tr.scene)
      [] tr.type = "Pop" -> Front(st)

UpdateTransitionPopBottom(st, tr) ==
    CASE tr.type = "None" -> st
      [] tr.type = "Push" -> Append(st, tr.scene)
      [] tr.type = "Pop" -> Tail(st)

UpdateTransitionDeferred(st, tr) ==
    CASE tr.type = "None" -> st
      [] tr.type = "Push" -> st
      [] tr.type = "Pop" -> Front(st)

\* The match on the Transition returned by active_scene.update.
UpdateTransition(st, tr) ==
    CASE tr.type = "None" -> st
      [] tr.type = "Push" -> Append(st, tr.scene)
      [] tr.type = "Pop" -> Front(st)

\* The match on the Transition returned by active_scene.draw.
DrawTransition(st, tr) ==
    CASE tr.type = "None" -> st
      [] tr.type = "Push" -> Append(st, tr.scene)
      [] tr.type = "Pop" -> Front(st)

\* A callback as observed: which scene got it, what it returned, and the
\* stack and the entity count before and after it.
Call(o, f, s, sp, tr, before, after, nb, na) ==
    [op |-> o, frame |-> f, scene |-> s, space |-> sp, t |-> tr,
     before |-> before, after |-> after,
     entitiesBefore |-> nb, entitiesAfter |-> na]

Record(c) == IF Len(calls) < 2 THEN Append(calls, c) ELSE <<calls[2], c>>

Pushes(tr) == tr.type = "Push"

\* GameState::new: an empty executor, a world holding what the initial
\* TestScene's constructor inserted, and that scene alone on the stack.
Init ==
    /\ systems = <<>>
    /\ world = TestSceneNew(<<>>)
    /\ scenes = <<Scene("TestScene", 1)>>
    /\ nextId = 2
    /\ pc = "update"
    /\ frame = 1
    /\ spaces = 0
    /\ quit = FALSE
    /\ calls = <<>>

\* window::quit branch shared by update and draw: no scene is called.
QuitBranch(o, w) ==
    /\ quit' = TRUE
    /\ world' = w
    /\ calls' = Record(Call(o, frame, NoScene, FALSE, None, scenes, scenes,
                            Len(world), Len(w)))
    /\ UNCHANGED <<scenes, nextId>>

\* The world after self.executor.execute, the first statement of update.
Executed == Execute(world, systems)

\* GameState::update given what the active scene's update hands back (res)
\* when called on the executed world.
UpdateWith(res, space) ==
    LET w1 == Executed IN
    /\ pc = "update"
    /\ pc' = "draw"
    /\ IF scenes = <<>>
       THEN QuitBranch("update", w1)
       ELSE LET after == UpdateTransition(scenes, res.t) IN
            /\ scenes' = after
            /\ world' = res.world
            /\ nextId' = IF Pushes(res.t) THEN nextId + 1 ELSE nextId
            /\ calls' = Record(Call("update", frame, ActiveScene(scenes),
                                    space, res.t, scenes, after,
                                    Len(world), Len(res.world)))
            /\ UNCHANGED quit
    /\ UNCHANGED <<systems, frame>>

\* GameState::draw given what the active scene's draw hands back (res).
DrawWith(res, limit) ==
    /\ pc = "draw"
    /\ frame < limit
    /\ pc' = "update"
    /\ frame' = frame + 1
    /\ IF scenes = <<>>
       THEN QuitBranch("draw", world)
       ELSE LET after == DrawTransition(scenes, res.t) IN
            /\ scenes' = after
            /\ world' = res.world
            /\ nextId' = IF Pushes(res.t) THEN nextId + 1 ELSE nextId
            /\ calls' = Record(Call("draw", frame, ActiveScene(scenes),
                                    FALSE, res.t, scenes, after,
                                    Len(world), Len(res.world)))
            /\ UNCHANGED quit
    /\ UNCHANGED <<systems, spaces>>

\* One update tick of the shipped game; Space is pressed or not.
Update ==
    \E space \in BOOLEAN :
        /\ space => nextId <= MaxScenes
        /\ UpdateWith(SceneUpdate(ActiveScene(scenes), space, Executed,
                                  nextId), space)
        /\ spaces' = IF space THEN spaces + 1 ELSE spaces

\* One draw of the shipped game.
Draw ==
    DrawWith(SceneDraw(ActiveScene(scenes), world), MaxFrames)

Next == Update \/ Draw

Spec == Init /\ [][Next]_vars

\* GameState driven by arbitrary Scene implementations.
UpdateAny ==
    \E choice \in TransitionChoices :
        /\ choice \in {"PushTestScene", "PushTestScene2"}
              => nextId <= MaxScenesGen
        /\ UpdateWith(AnySceneResult(choice, Executed, nextId), FALSE)
        /\ UNCHANGED spaces

DrawAny ==
    \E choice \in TransitionChoices :
        /\ choice \in {"PushTestScene", "PushTestScene2"}
              => nextId <= MaxScenesGen
        /\ DrawWith(AnySceneResult(choice, world, nextId), MaxFramesGen)

NextGen == UpdateAny \/ DrawAny

SpecGen == Init /\ [][NextGen]_vars

\* ===== Properties =====
Last(st) == st[Len(st)]
CallSet == {calls[i] : i \in 1..Len(calls)}
IsFramePair == /\ Len(calls) = 2
               /\ calls[1].op = "update" /\ calls[2].op = "draw"
               /\ calls[1].frame = calls[2].frame
TestScenesIn(st) == Cardinality({i \in 1..Len(st) : st[i].kind = "TestScene"})
StaticIds == {i \in 1..Len(world) : "Static" \in world[i].tags}
UntaggedIds == {i \in 1..Len(world) : world[i].tags = {}}

\* C1: every update and every draw call goes to exactly one scene, the one
\* that is last in the scene stack at the moment of the call; no scene below
\* the top is the one called.
C1_OnlyTopCalled ==
    \A c \in CallSet :
        /\ c.before # <<>>
        /\ c.scene = c.before[Len(c.before)]
        /\ \A j \in 1..(Len(c.before) - 1) : c.before[j] # c.scene

C1_Witness ==
    /\ Len(calls) = 2
    /\ calls[1].op = "update" /\ calls[2].op = "draw"
    /\ Len(calls[1].before) >= 2 /\ Len(calls[2].before) >= 3

\* C2: when update or draw gets Transition::Push(s), the stack afterwards is
\* the stack before with s appended: one longer, the requesting scene
\* directly beneath s, every earlier scene at its old position.
C2_PushAppends ==
    /\ calls # <<>> => Last(calls).after = scenes
    /\ \A c \in CallSet :
          c.t.type = "Push" =>
             /\ Len(c.after) = Len(c.before) + 1
             /\ Last(c.after) = c.t.scene
             /\ c.after[Len(c.after) - 1] = c.scene
             /\ \A j \in 1..Len(c.before) : c.after[j] = c.before[j]

C2_Witness ==
    /\ Len(calls) = 2
    /\ calls[1].op = "update" /\ calls[1].t.type = "Push"
    /\ calls[2].op = "draw" /\ calls[2].t.type = "Push"
    /\ Len(scenes) = 3

\* C3: on Transition::Pop only the top scene is removed and the scene that
\* was directly beneath it is the one called next; a Push of a scene followed
\* by a Pop requested by that scene gives back the stack as it was before
\* the Push.
C3_PopRemovesTop ==
    /\ calls # <<>> => Last(calls).after = scenes
    /\ \A c \in CallSet :
          c.t.type = "Pop" =>
             /\ Len(c.after) = Len(c.before) - 1
             /\ \A j \in 1..Len(c.after) : c.after[j] = c.before[j]
    /\ (Len(calls) = 2 /\ calls[1].t.type = "Pop"
          /\ Len(calls[1].before) >= 2) =>
             calls[2].scene = calls[1].before[Len(calls[1].before) - 1]
    /\ (Len(calls) = 2 /\ calls[1].t.type = "Push"
          /\ calls[2].t.type = "Pop" /\ calls[2].scene = calls[1].t.scene) =>
             scenes = calls[1].before

C3_Witness ==
    /\ Len(calls) = 2
    /\ calls[1].t.type = "Push" /\ Len(calls[1].before) >= 2
    /\ calls[2].t.type = "Pop" /\ calls[2].scene = calls[1].t.scene
    /\ scenes = calls[1].before

\* C4: each update leaves every entity that has a Position with x and y
\* one greater than before that update.
C4_PositionsIncrement ==
    [][(pc = "update" /\ pc' = "draw") =>
          \A i \in 1..Len(world) :
             HasComponent(world[i], "Position") =>
                world'[i].comps["Position"] =
                   Position(world[i].comps["Position"].x + 1,
                            world[i].comps["Position"].y + 1)]_vars

\* C5: an update with Space pressed changes the active scene from TestScene
\* to TestScene2 or back, so the active scene is TestScene after an even
\* number of such updates and TestScene2 after an odd number; an update
\* without Space leaves the active scene the same.
C5_SwapOnSpace ==
    /\ (spaces % 2 = 0) => Last(scenes).kind = "TestScene"
    /\ (spaces % 2 = 1) => Last(scenes).kind = "TestScene2"
    /\ \A c \in CallSet :
          c.op = "update" =>
             IF c.space
             THEN {c.scene.kind, Last(c.after).kind} =
                     {"TestScene", "TestScene2"}
             ELSE Last(c.after) = c.scene

C5_Witness ==
    /\ spaces = 3
    /\ Last(scenes).kind = "TestScene2"
    /\ Len(calls) = 2 /\ calls[1].op = "draw"
    /\ calls[2].op = "update" /\ calls[2].space

\* C6 as stated: the scene that got a frame's update call also gets that
\* frame's draw call, and a scene pushed during a frame is not called in
\* that frame.
C6_NextFrameOnly ==
    IsFramePair =>
       /\ calls[2].scene = calls[1].scene
       /\ calls[1].t.type = "Push" => calls[2].scene # calls[1].t.scene

\* C6 amended: a transition is applied before the call that returned it
\* ends, so a frame's draw call goes to the top of the stack as that frame's
\* update left it: to the same scene when update returned None, to the
\* pushed scene when update returned Push.
C6_AppliedAtOnce ==
    IsFramePair =>
       /\ calls[2].before = calls[1].after
       /\ calls[2].scene = Last(calls[1].after)
       /\ calls[1].t.type = "None" => calls[2].scene = calls[1].scene
       /\ calls[1].t.type = "Push" =>
             /\ calls[2].scene = calls[1].t.scene
             /\ calls[2].scene # calls[1].scene

C6_Witness ==
    /\ IsFramePair
    /\ calls[1].t.type = "Push"
    /\ calls[2].scene = calls[1].t.scene
    /\ calls[2].scene.kind = "TestScene2"

\* C7: a call that returns Transition::None leaves the stack as it was, and
\* every draw call returns None, so no draw call changes the stack.
C7_NoneKeepsStack ==
    /\ calls # <<>> => Last(calls).after = scenes
    /\ \A c \in CallSet :
          /\ c.t.type = "None" => c.after = c.before
          /\ c.op = "draw" => (c.t.type = "None" /\ c.after = c.before)

C7_Witness ==
    /\ Len(calls) = 2
    /\ calls[1].op = "update" /\ calls[1].t.type = "None"
    /\ calls[2].op = "draw" /\ calls[2].t.type = "None"
    /\ Len(scenes) >= 2
    /\ scenes = calls[1].before

C9_NeverEmpty ==
    /\ scenes # <<>>
    /\ ~quit
    /\ \A c \in CallSet :
          /\ c.t.type # "Pop"
          /\ c.scene # NoScene
          /\ Len(c.after) >= Len(c.before)

C9_Witness ==
    /\ Len(scenes) >= 4
    /\ frame >= 6
    /\ Len(calls) = 2 /\ calls[2].t.type = "None"

\* C10: the world holds 1998 entities per TestScene in the stack: Space
\* pressed while TestScene2 is active adds 1998, Space pressed while
\* TestScene is active adds none, and no call lowers the count.
C10_EntityCount ==
    /\ Len(world) = 2 * BatchSize * TestScenesIn(scenes)
    /\ \A c \in CallSet :
          /\ c.entitiesAfter >= c.entitiesBefore
          /\ (c.op = "update" /\ c.space /\ c.scene.kind = "TestScene2") =>
                c.entitiesAfter = c.entitiesBefore + 2 * BatchSize
          /\ (c.op = "update" /\ c.space /\ c.scene.kind = "TestScene") =>
                c.entitiesAfter = c.entitiesBefore
          /\ ~(c.op = "update" /\ c.space) =>
                c.entitiesAfter = c.entitiesBefore

C10_Witness ==
    /\ Len(scenes) = 4
    /\ Len(world) = 4 * BatchSize
    /\ Len(calls) = 2
    /\ calls[2].op = "update" /\ calls[2].space
    /\ calls[2].scene.kind = "TestScene"

====
